---------------------------- MODULE Spec2Model ----------------------------
(***************************************************************************)
(* The rate-limiting subsystem of webliAI-backend: the RateLimiter         *)
(* (core/rate-limiter/rate-limiter.ts), the TokenBucketStrategy (second    *)
(* half of core/logger/console.logger.ts) and the MemoryRateLimitStorage   *)
(* (core/rate-limiter/storage/memory.storage.ts, base.storage.ts).         *)
(*                                                                         *)
(* Time is Date.now() in milliseconds.  Token balances are JavaScript      *)
(* numbers (fractions of a token); the model keeps them exactly, as whole  *)
(* multiples of 1/TokenUnit of a token, TokenUnit being a common multiple  *)
(* of 1000 * duration for every duration in use, so that                   *)
(* elapsed / 1000 * points / duration is a whole number of units.          *)
(* Strings are sequences of characters.  An optional number that is        *)
(* undefined or 0 (blockDuration, blockUntil) is the number 0: the code    *)
(* only ever tests such a field for truthiness.                            *)
(***************************************************************************)
EXTENDS Integers, Sequences, FiniteSets, TLC

(***************************************************************************)
(* Bounds of the model.                                                    *)
(***************************************************************************)
MaxPoints == 2          \* configs have points in 1..MaxPoints
MaxDuration == 2        \* ... and duration in 1..MaxDuration seconds
MaxBlockDuration == 1   \* ... and blockDuration in 0..MaxBlockDuration (0: unset)
MaxCost == 2            \* a consume costs 1..MaxCost
MaxTicks == 5           \* the clock advances at most MaxTicks times
RefillSeconds == 12     \* horizon, in seconds, of the refill scenario
FaultTicks == 2         \* clock advances in the failing-storage scenario
KeysTicks == 1          \* clock advances in the identifiers scenario
NamespaceTicks == 1     \* clock advances in the namespaces scenario
BalanceTicks == 3       \* clock advances in the overrides scenario
MaxInFlight == 2        \* consume calls in flight at any moment
MaxIssued == 5          \* consume calls issued in the concurrent scenario
MaxTtl == 2             \* a set on the storage has a TTL of 1..MaxTtl seconds
StorageTicks == 4       \* clock advances in the storage scenario
CancelTicks == 3        \* clock advances in the abandoned-calls scenario
BypassTicks == 3        \* clock advances in the bypass scenario
CounterTicks == 4       \* clock advances in the consumed-counter scenario
BlockRaceTicks == 2     \* clock advances in the block-under-traffic scenario
RetryBlockDuration == 2 \* the blockDuration, when set, in the retry scenario
RetryTicks == 4         \* clock advances in the retry scenario
LockoutTicks == 7       \* clock advances in the retrying-client scenario
LongDuration == 100     \* the duration, in seconds, of the long-window scenario
LongTicks == 4          \* clock advances in the long-window scenario

(***************************************************************************)
(* Program constants.                                                      *)
(***************************************************************************)
MsPerSecond == 1000     \* Date.now() is in ms, configs are in seconds
DefaultRejectTtl == 60  \* config.duration + (config.blockDuration || 60)
BlockTtlSlack == 60     \* block(): TTL = duration + 60
BypassSentinel == 999999

StepMs == MsPerSecond \div 2     \* the clock's resolution in the model

Durations == 1..MaxDuration
RefillConfig == [points |-> 10, duration |-> 10, blockDuration |-> 0]

RECURSIVE Gcd(_, _)
Gcd(a, b) == IF b = 0 THEN a ELSE Gcd(b, a % b)

RECURSIVE Lcm(_)
Lcm(S) ==
  IF S = {} THEN 1
  ELSE LET x == CHOOSE y \in S : TRUE
           m == Lcm(S \ {x})
       IN (x \div Gcd(x, m)) * m

\* Units per token: a multiple of MsPerSecond * d for every duration d in use.
TokenUnit == MsPerSecond * Lcm(Durations \cup {RefillConfig.duration, LongDuration})

Configs ==
  [points : 1..MaxPoints, duration : Durations, blockDuration : 0..MaxBlockDuration]

Min(a, b) == IF a < b THEN a ELSE b
CeilDiv(a, b) == IF a <= 0 THEN 0 - ((0 - a) \div b) ELSE (a + b - 1) \div b

(***************************************************************************)
(* Values.                                                                 *)
(***************************************************************************)
Null == [isNull |-> TRUE]
IsNull(v) == "isNull" \in DOMAIN v

NoNamespace == [given |-> FALSE, str |-> <<>>]
Ns(s) == [given |-> TRUE, str |-> s]

\* The characters of the class [a-zA-Z0-9._-] that the model's strings use.
SafeChars == {"a", "b", "n", "m", "1", ".", "_", "-"}


(***************************************************************************)
(* MemoryRateLimitStorage: the cache is a Map from full key to             *)
(* {data, expiresAt}; DOMAIN cache is the set of keys physically present.  *)
(***************************************************************************)
StorageBuildKey(key) == <<"ratelimit", ":">> \o key

Without(c, fullKey) == [k \in DOMAIN c \ {fullKey} |-> c[k]]

\* Mutant: a get that does not look at the expiry.
StorageGetUnexpiring(c, key, t) ==
  LET fullKey == StorageBuildKey(key) IN
  IF fullKey \notin DOMAIN c
    THEN [data |-> Null, cache |-> c]
    ELSE [data |-> c[fullKey].data, cache |-> c]

\* get: the data, or null when absent or expired; an expired entry is deleted.
StorageGet(c, key, t) ==
  LET fullKey == StorageBuildKey(key) IN
  IF fullKey \notin DOMAIN c
    THEN [data |-> Null, cache |-> c]
    ELSE IF t > c[fullKey].expiresAt
      THEN [data |-> Null, cache |-> Without(c, fullKey)]
      ELSE [data |-> c[fullKey].data, cache |-> c]

\* Mutant: a set that patches the entry it finds, keeping its blockUntil.
StorageSetPatching(c, key, data, ttlInSeconds, t) ==
  LET fullKey == StorageBuildKey(key) IN
  [k \in DOMAIN c \cup {fullKey} |->
     IF k = fullKey
       THEN [data |-> IF fullKey \in DOMAIN c
                        THEN [data EXCEPT !.blockUntil = c[fullKey].data.blockUntil]
                        ELSE data,
             expiresAt |-> t + ttlInSeconds * MsPerSecond]
       ELSE c[k]]

\* Mutant: the TTL taken as milliseconds (no * 1000).
StorageSetTtlInMs(c, key, data, ttlInSeconds, t) ==
  LET fullKey == StorageBuildKey(key) IN
  [k \in DOMAIN c \cup {fullKey} |->
     IF k = fullKey
       THEN [data |-> data, expiresAt |-> t + ttlInSeconds]
       ELSE c[k]]

StorageSet(c, key, data, ttlInSeconds, t) ==
  LET fullKey == StorageBuildKey(key) IN
  [k \in DOMAIN c \cup {fullKey} |->
     IF k = fullKey
       THEN [data |-> data, expiresAt |-> t + ttlInSeconds * MsPerSecond]
       ELSE c[k]]

\* Mutant: a delete that removes nothing.
StorageDeleteNothing(c, key) == c

StorageDelete(c, key) == Without(c, StorageBuildKey(key))

StorageCleanup(c, t) == [k \in {x \in DOMAIN c : ~(t > c[x].expiresAt)} |-> c[k]]

(***************************************************************************)
(* TokenBucketStrategy.                                                    *)
(***************************************************************************)
StrategyBuildKey(identifier) == <<"tb", ":">> \o identifier

\* Mutant: the elapsed milliseconds taken as seconds (no / 1000).
UnitsPerMsAsSeconds(config) == config.points * (TokenUnit \div config.duration)

\* tokens per second is points / duration; in units per millisecond:
UnitsPerMs(config) == config.points * (TokenUnit \div (MsPerSecond * config.duration))

\* Mutant: the refill without its cap at config.points.
RefillTokensUncapped(data, config, t) ==
  [tokens     |-> data.tokens + (t - data.lastRefill) * UnitsPerMs(config),
   lastRefill |-> t,
   consumed   |-> data.consumed,
   blockUntil |-> data.blockUntil]

RefillTokens(data, config, t) ==
  LET tokensToAdd == (t - data.lastRefill) * UnitsPerMs(config) IN
  [tokens     |-> Min(config.points * TokenUnit, data.tokens + tokensToAdd),
   lastRefill |-> t,
   consumed   |-> data.consumed,
   blockUntil |-> data.blockUntil]

\* Mutant: a block that never ends.
BlockActiveWhateverTheTime(data, t) == data.blockUntil # 0

\* data.blockUntil && data.blockUntil > now
BlockActive(data, t) == data.blockUntil # 0 /\ data.blockUntil > t

FreshData(config, t) ==
  [tokens |-> config.points * TokenUnit, lastRefill |-> t, consumed |-> 0, blockUntil |-> 0]

BlockedResult(data, config, t) ==
  [allowed    |-> FALSE,
   remaining  |-> 0,
   limit      |-> config.points,
   resetAt    |-> data.blockUntil,
   retryAfter |-> CeilDiv(data.blockUntil - t, MsPerSecond),
   consumed   |-> data.consumed,
   isBlocked  |-> TRUE]

\* Math.ceil((points - data.tokens) / (config.points / config.duration))
RetryAfter(data, points, config) ==
  CeilDiv((points * TokenUnit - data.tokens) * config.duration, config.points * TokenUnit)

\* Mutant: the block duration taken as milliseconds (no * 1000).
ApplyBlockNoMs(data, config, t) ==
  [data EXCEPT !.blockUntil =
     IF config.blockDuration # 0 THEN t + config.blockDuration ELSE @]

\* The record the rejecting branch saves: the block is applied if configured.
ApplyBlock(data, config, t) ==
  [data EXCEPT !.blockUntil =
     IF config.blockDuration # 0 THEN t + config.blockDuration * MsPerSecond ELSE @]

\* Mutant: the rejection saved under the TTL of an allowed call.
RejectTtlAsAllowed(config) == config.duration

RejectTtl(config) ==
  config.duration + (IF config.blockDuration # 0 THEN config.blockDuration ELSE DefaultRejectTtl)

RejectedResult(data, points, config, t) ==
  [allowed    |-> FALSE,
   remaining  |-> data.tokens \div TokenUnit,
   limit      |-> config.points,
   resetAt    |-> t + RetryAfter(data, points, config) * MsPerSecond,
   retryAfter |-> RetryAfter(data, points, config),
   consumed   |-> data.consumed,
   isBlocked  |-> FALSE]

\* Mutant: the comparison off by one (data.tokens <= points).
InsufficientOrEqual(data, points) == data.tokens <= points * TokenUnit

\* data.tokens < points
Insufficient(data, points) == data.tokens < points * TokenUnit

\* Mutant: the tokens deducted and the counter left as it was.
DeductUncounted(data, points) == [data EXCEPT !.tokens = @ - points * TokenUnit]

Deduct(data, points) ==
  [data EXCEPT !.tokens = @ - points * TokenUnit, !.consumed = @ + points]

\* Math.floor(now + (config.points - data.tokens) / rate * 1000)
FullAt(data, config, t) ==
  t + ((config.points * TokenUnit - data.tokens) * config.duration)
        \div (config.points * (TokenUnit \div MsPerSecond))

AllowedResult(data, config, t) ==
  [allowed    |-> TRUE,
   remaining  |-> data.tokens \div TokenUnit,
   limit      |-> config.points,
   resetAt    |-> FullAt(data, config, t),
   retryAfter |-> 0,
   consumed   |-> data.consumed,
   isBlocked  |-> FALSE]

NoResult ==
  [allowed |-> FALSE, remaining |-> 0, limit |-> 0, resetAt |-> 0,
   retryAfter |-> 0, consumed |-> 0, isBlocked |-> FALSE]

\* What a call hands back: the cache it leaves, its result, whether it threw,
\* the branch it took, and the record and TTL it saved (Null, 0: none).
Outcome(c, result, branch, wrote, ttl) ==
  [cache |-> c, result |-> result, ret |-> FALSE, threw |-> FALSE, branch |-> branch,
   wrote |-> wrote, ttl |-> ttl]

Thrown(c) ==
  [cache |-> c, result |-> NoResult, ret |-> FALSE, threw |-> TRUE, branch |-> "threw",
   wrote |-> Null, ttl |-> 0]

\* fault: "none", or the storage call that raises ("get", "set", "delete").  The
\* in-memory backend never raises; a raising set or delete changes nothing.
\* Mutant: a blocked consume that saves the record again, renewing its expiry.
ConsumeBlockedSaving(c, key, read, points, config, t, tSet, fault) ==
  LET data0 == IF IsNull(read) THEN FreshData(config, t) ELSE read
      data  == RefillTokens(data0, config, t)
      saved == ApplyBlock(data, config, t)
      spent == Deduct(data, points)
  IN
  IF BlockActive(data0, t)
    THEN Outcome(StorageSet(c, key, data0, RejectTtl(config), tSet),
                 BlockedResult(data0, config, t), "blocked", Null, 0)
  ELSE IF Insufficient(data, points)
    THEN Outcome(StorageSet(c, key, saved, RejectTtl(config), tSet),
                 RejectedResult(saved, points, config, t),
                 "rejected", saved, RejectTtl(config))
  ELSE Outcome(StorageSet(c, key, spent, config.duration, tSet),
               AllowedResult(spent, config, t), "allowed", spent, config.duration)

\* Mutant: a consume that is a transaction, deciding on the record as it stands
\* at the instant of its write and not on the one it read.
ConsumeAsTransaction(c, key, read, points, config, t, tSet, fault) ==
  LET again == StorageGet(c, key, tSet).data
      data0 == IF IsNull(again) THEN FreshData(config, t) ELSE again
      data  == RefillTokens(data0, config, t)
      saved == ApplyBlock(data, config, t)
      spent == Deduct(data, points)
  IN
  IF BlockActive(data0, t)
    THEN Outcome(c, BlockedResult(data0, config, t), "blocked", Null, 0)
  ELSE IF Insufficient(data, points)
    THEN Outcome(StorageSet(c, key, saved, RejectTtl(config), tSet),
                 RejectedResult(saved, points, config, t),
                 "rejected", saved, RejectTtl(config))
  ELSE Outcome(StorageSet(c, key, spent, config.duration, tSet),
               AllowedResult(spent, config, t), "allowed", spent, config.duration)

\* consume from the point where storage.get has answered with read: c is the
\* cache at that point, t the Date.now() taken when the call began, tSet the
\* instant of the storage.set.
ConsumeAfterGet(c, key, read, points, config, t, tSet, fault) ==
  LET data0 == IF IsNull(read) THEN FreshData(config, t) ELSE read
      data  == RefillTokens(data0, config, t)
      saved == ApplyBlock(data, config, t)
      spent == Deduct(data, points)
  IN
  IF BlockActive(data0, t)
    THEN Outcome(c, BlockedResult(data0, config, t), "blocked", Null, 0)
  ELSE IF Insufficient(data, points)
    THEN IF fault = "set" THEN Thrown(c)
         ELSE Outcome(StorageSet(c, key, saved, RejectTtl(config), tSet),
                      RejectedResult(saved, points, config, t),
                      "rejected", saved, RejectTtl(config))
  ELSE IF fault = "set" THEN Thrown(c)
  ELSE Outcome(StorageSet(c, key, spent, config.duration, tSet),
               AllowedResult(spent, config, t), "allowed", spent, config.duration)

StrategyConsume(c, identifier, points, config, t, fault) ==
  LET key == StrategyBuildKey(identifier)
      got == StorageGet(c, key, t)
  IN
  IF fault = "get" THEN Thrown(c)
  ELSE ConsumeAfterGet(got.cache, key, got.data, points, config, t, t, fault)

\* Mutant: a getStatus that saves the balance it has refilled.
GetStatusPersisting(c, identifier, config, t, fault) ==
  LET key  == StrategyBuildKey(identifier)
      got  == StorageGet(c, key, t)
      data == RefillTokens(got.data, config, t)
  IN
  IF fault = "get" THEN Thrown(c)
  ELSE IF IsNull(got.data)
    THEN Outcome(got.cache,
                 [allowed |-> TRUE, remaining |-> config.points, limit |-> config.points,
                  resetAt |-> t, retryAfter |-> 0, consumed |-> 0, isBlocked |-> FALSE],
                 "absent", Null, 0)
  ELSE IF BlockActive(got.data, t)
    THEN Outcome(got.cache, BlockedResult(got.data, config, t), "blocked", Null, 0)
  ELSE Outcome(StorageSet(got.cache, key, data, config.duration, t),
               [AllowedResult(data, config, t) EXCEPT !.allowed = data.tokens >= TokenUnit],
               "status", Null, 0)

StrategyGetStatus(c, identifier, config, t, fault) ==
  LET key  == StrategyBuildKey(identifier)
      got  == StorageGet(c, key, t)
      data == RefillTokens(got.data, config, t)
  IN
  IF fault = "get" THEN Thrown(c)
  ELSE IF IsNull(got.data)
    THEN Outcome(got.cache,
                 [allowed |-> TRUE, remaining |-> config.points, limit |-> config.points,
                  resetAt |-> t, retryAfter |-> 0, consumed |-> 0, isBlocked |-> FALSE],
                 "absent", Null, 0)
  ELSE IF BlockActive(got.data, t)
    THEN Outcome(got.cache, BlockedResult(got.data, config, t), "blocked", Null, 0)
  ELSE Outcome(got.cache,
               [AllowedResult(data, config, t) EXCEPT !.allowed = data.tokens >= TokenUnit],
               "status", Null, 0)

StrategyReset(c, identifier, fault) ==
  IF fault = "delete" THEN Thrown(c)
  ELSE Outcome(StorageDelete(c, StrategyBuildKey(identifier)), NoResult, "reset", Null, 0)

\* Mutant: an isBlocked that does not compare blockUntil with the clock.
IsBlockedWhateverTheTime(c, identifier, t, fault) ==
  LET got == StorageGet(c, StrategyBuildKey(identifier), t) IN
  IF fault = "get" THEN Thrown(c)
  ELSE [Outcome(got.cache, NoResult, "isBlocked", Null, 0) EXCEPT
          !.ret = ~(IsNull(got.data) \/ got.data.blockUntil = 0)]

StrategyIsBlocked(c, identifier, t, fault) ==
  LET got == StorageGet(c, StrategyBuildKey(identifier), t) IN
  IF fault = "get" THEN Thrown(c)
  ELSE [Outcome(got.cache, NoResult, "isBlocked", Null, 0) EXCEPT
          !.ret = IF IsNull(got.data) \/ got.data.blockUntil = 0
                    THEN FALSE ELSE t < got.data.blockUntil]

\* Mutant: the duration of a manual block taken as milliseconds (no * 1000).
BlockDataNoMs(duration, t) ==
  [tokens |-> 0, lastRefill |-> t, consumed |-> 0, blockUntil |-> t + duration]

BlockData(duration, t) ==
  [tokens |-> 0, lastRefill |-> t, consumed |-> 0, blockUntil |-> t + duration * MsPerSecond]

StrategyBlock(c, identifier, duration, t, fault) ==
  IF fault = "set" THEN Thrown(c)
  ELSE Outcome(StorageSet(c, StrategyBuildKey(identifier), BlockData(duration, t),
                          duration + BlockTtlSlack, t),
               NoResult, "block", BlockData(duration, t), duration + BlockTtlSlack)

(***************************************************************************)
(* RateLimiter.                                                            *)
(***************************************************************************)
\* Mutant: the namespace left out of the key.
KeyWithoutNamespace(identifier, namespace) == identifier

\* namespace ? `${namespace}:${identifier}` : identifier  (an empty string is falsy)
DefaultKeyGenerator(identifier, namespace) ==
  IF namespace.given /\ namespace.str # <<>>
    THEN namespace.str \o <<":">> \o identifier
    ELSE identifier

\* Mutant: the identifier left as it came.
SanitizeNothing(identifier) == identifier

\* identifier.replace(/[^a-zA-Z0-9._-]/g, "_")
SanitizeIdentifier(identifier) ==
  [i \in 1..Len(identifier) |->
     IF identifier[i] \in SafeChars THEN identifier[i] ELSE "_"]

ShouldBypass(bypass, identifier) == identifier \in bypass

\* { ...this.defaultConfig, ...config }: an override is a function on some of
\* the config's fields; <<>> overrides nothing.
NoOverride == <<>>
MergeConfig(default, override) ==
  [f \in DOMAIN default |-> IF f \in DOMAIN override THEN override[f] ELSE default[f]]

BypassResult(t) ==
  [allowed |-> TRUE, remaining |-> BypassSentinel, limit |-> BypassSentinel,
   resetAt |-> t + BypassSentinel, retryAfter |-> 0, consumed |-> 0, isBlocked |-> FALSE]

\* Mutant: failing closed.
FailClosedResult(default, t) ==
  [allowed |-> FALSE, remaining |-> 0, limit |-> default.points,
   resetAt |-> t + default.duration * MsPerSecond, retryAfter |-> 0, consumed |-> 0,
   isBlocked |-> FALSE]

FailOpenResult(default, t) ==
  [allowed |-> TRUE, remaining |-> default.points, limit |-> default.points,
   resetAt |-> t + default.duration * MsPerSecond, retryAfter |-> 0, consumed |-> 0,
   isBlocked |-> FALSE]

\* catch (error) { if (this.onError) this.onError(error); return <fail open> }
\* onError counts the callback's invocations during the call.
Plain(out) == [k \in DOMAIN out \cup {"onError"} |-> IF k = "onError" THEN 0 ELSE out[k]]

Caught(out, default, t, registered) ==
  IF out.threw
    THEN [Plain(Outcome(out.cache, FailOpenResult(default, t), "failopen", Null, 0))
            EXCEPT !.onError = IF registered THEN 1 ELSE 0]
    ELSE out

\* Mutant: the bypass list looked at only after the strategy has consumed.
LimiterConsumeBypassLate(c, bypass, default, registered, identifier, points, override, namespace, t, fault) ==
  LET safeIdentifier == SanitizeIdentifier(identifier)
      key            == DefaultKeyGenerator(safeIdentifier, namespace)
      finalConfig    == MergeConfig(default, override)
      out            == Caught(Plain(StrategyConsume(c, key, points, finalConfig, t, fault)),
                               default, t, registered)
  IN
  IF ShouldBypass(bypass, safeIdentifier)
    THEN Plain(Outcome(out.cache, BypassResult(t), "bypass", Null, 0))
    ELSE out

LimiterConsume(c, bypass, default, registered, identifier, points, override, namespace, t, fault) ==
  LET safeIdentifier == SanitizeIdentifier(identifier)
      key            == DefaultKeyGenerator(safeIdentifier, namespace)
      finalConfig    == MergeConfig(default, override)
  IN
  IF ShouldBypass(bypass, safeIdentifier)
    THEN Plain(Outcome(c, BypassResult(t), "bypass", Null, 0))
    ELSE Caught(Plain(StrategyConsume(c, key, points, finalConfig, t, fault)),
                default, t, registered)

LimiterGetStatus(c, default, registered, identifier, override, namespace, t, fault) ==
  LET key == DefaultKeyGenerator(SanitizeIdentifier(identifier), namespace) IN
  Caught(Plain(StrategyGetStatus(c, key, MergeConfig(default, override), t, fault)),
         default, t, registered)

\* reset, block and isBlocked have no try/catch: what the strategy throws, they throw.
LimiterReset(c, identifier, namespace, fault) ==
  Plain(StrategyReset(c, DefaultKeyGenerator(SanitizeIdentifier(identifier), namespace), fault))

LimiterBlock(c, identifier, duration, namespace, t, fault) ==
  Plain(StrategyBlock(c, DefaultKeyGenerator(SanitizeIdentifier(identifier), namespace),
                      duration, t, fault))

LimiterIsBlocked(c, identifier, namespace, t, fault) ==
  Plain(StrategyIsBlocked(c, DefaultKeyGenerator(SanitizeIdentifier(identifier), namespace),
                          t, fault))

AddBypass(bypass, identifier) == bypass \cup {identifier}
RemoveBypass(bypass, identifier) == bypass \ {identifier}

(***************************************************************************)
(* State.                                                                  *)
(*   now           Date.now()                                              *)
(*   ticks         how many times the clock has advanced                   *)
(*   cache         MemoryRateLimitStorage.cache                            *)
(*   bypassList    RateLimiter.bypassList                                  *)
(*   defaultConfig RateLimiter.defaultConfig (options.defaultConfig)       *)
(*   onErrorSet    whether options.onError was given                       *)
(*   last          the most recent call and what it returned               *)
(*   hist          what the history of calls on the identifier amounts to  *)
(*   flight        the consume calls suspended at the storage boundary     *)
(*   written       per key, the last set not deleted since: its data, its  *)
(*                 instant and its TTL (kept where the storage is driven   *)
(*                 directly)                                               *)
(***************************************************************************)
VARIABLES now, ticks, cache, bypassList, defaultConfig, onErrorSet, last, hist, flight,
          written

vars ==
  <<now, ticks, cache, bypassList, defaultConfig, onErrorSet, last, hist, flight, written>>

NoCall ==
  [op |-> "none", id |-> <<>>, ns |-> NoNamespace, cost |-> 0, dur |-> 0,
   cfg |-> [points |-> 0, duration |-> 0, blockDuration |-> 0], at |-> 0,
   fault |-> "none", listed |-> FALSE, res |-> NoResult, ret |-> FALSE, threw |-> FALSE, onError |-> 0,
   branch |-> "none", wrote |-> Null, ttl |-> 0]

\* The record of a call: what was asked, when, the storage fault it met (fault)
\* and the outcome.
Call(op, id, ns, cost, dur, cfg, fault, out) ==
  [op |-> op, id |-> id, ns |-> ns, cost |-> cost, dur |-> dur, cfg |-> cfg, at |-> now,
   fault |-> fault, listed |-> id \in bypassList,
   res |-> out.result, ret |-> out.ret, threw |-> out.threw, onError |-> out.onError,
   branch |-> out.branch, wrote |-> out.wrote, ttl |-> out.ttl]

NoHist ==
  [streak |-> 0, streakAt |-> 0, grants |-> <<>>, gcfg |-> NoCall.cfg,
   escUntil |-> -1, escNew |-> FALSE, resetPending |-> FALSE, resetFrom |-> "none",
   afterReset |-> FALSE,
   drainedAt |-> -1, quiet |-> -1, manualUntil |-> -1,
   liveUntil |-> -1, sum |-> 0,
   before |-> [op |-> "none", branch |-> "none", at |-> 0, cost |-> 0, retryAfter |-> 0]]

\* The grants of one configuration since the last reset or block: one entry per
\* instant, the costs of the calls allowed at that instant added up.
Granted(g, at, cost) ==
  IF g # <<>> /\ g[Len(g)].at = at
    THEN [g EXCEPT ![Len(g)].cost = @ + cost]
    ELSE Append(g, [at |-> at, cost |-> cost])

HistAfter(h, prev, call, track) ==
  LET isConsume == call.op = "consume"
      served    == isConsume /\ call.branch \in {"allowed", "rejected", "blocked"}
      admin     == call.op \in {"reset", "block"}
      g0        == IF admin \/ (isConsume /\ call.cfg # h.gcfg) THEN <<>> ELSE h.grants
      g1        == IF isConsume /\ call.res.allowed
                     THEN Granted(g0, call.at, call.cost) ELSE g0
      escalates == isConsume /\ call.branch = "rejected" /\ call.cfg.blockDuration # 0
      active    == h.escUntil > call.at
  IN
  [streak |->
     IF served /\ call.cost = 1
       THEN IF prev.op = "none" THEN 1
            ELSE IF h.streak >= 1 /\ prev.cfg = call.cfg /\ h.streakAt = call.at
              THEN Min(h.streak + 1, call.cfg.points + 2)
              ELSE 0
       ELSE 0,
   streakAt |-> call.at,
   grants |-> IF "rate" \in track THEN g1 ELSE h.grants,
   gcfg |-> IF "rate" \in track /\ isConsume THEN call.cfg ELSE h.gcfg,
   escUntil |->
     IF admin THEN -1
     ELSE IF escalates /\ ~active THEN call.at + call.cfg.blockDuration * MsPerSecond
     ELSE IF active THEN h.escUntil
     ELSE -1,
   escNew |-> ~admin /\ escalates /\ ~active,
   resetPending |->
     IF call.op = "reset" THEN ~call.threw
     ELSE IF call.op \in {"consume", "block"} THEN FALSE
     ELSE h.resetPending,
   resetFrom |->
     IF call.op = "reset" THEN prev.branch
     ELSE IF isConsume /\ h.resetPending THEN h.resetFrom
     ELSE "none",
   afterReset |-> isConsume /\ h.resetPending,
   drainedAt |->
     IF isConsume /\ ~IsNull(call.wrote) /\ call.wrote.tokens = 0
          /\ ~BlockActive(call.wrote, call.at)
       THEN call.at ELSE -1,
   quiet |-> IF isConsume /\ h.drainedAt >= 0 THEN call.at - h.drainedAt ELSE -1,
   manualUntil |->
     IF call.op = "block" /\ ~call.threw THEN call.at + call.dur * MsPerSecond
     ELSE IF call.op = "reset" THEN -1
     ELSE IF h.manualUntil > call.at THEN h.manualUntil
     ELSE -1,
   liveUntil |->
     IF "sum" \notin track THEN h.liveUntil
     ELSE IF ~IsNull(call.wrote) THEN call.at + call.ttl * MsPerSecond
     ELSE IF call.op = "reset" THEN -1
     ELSE h.liveUntil,
   sum |->
     IF "sum" \notin track THEN h.sum
     ELSE IF admin THEN 0
     ELSE IF served
       THEN (IF call.at > h.liveUntil THEN 0 ELSE h.sum)
              + (IF call.res.allowed THEN call.cost ELSE 0)
     ELSE h.sum,
   before |->
     IF "before" \notin track THEN h.before
     ELSE [op |-> prev.op, branch |-> prev.branch, at |-> prev.at, cost |-> prev.cost,
           retryAfter |-> prev.res.retryAfter]]

\* A call's step: the cache it leaves and its record.  The history is kept by the
\* specifications that follow one identifier: track holds "calls", "rate" to
\* keep the log of grants as well, and "sum" to keep the costs allowed since the
\* record was created (liveUntil: when the TTL of the last write runs out),
\* "before" to keep the call that came before the last; {} keeps none.
Step(out, call, track) ==
  /\ cache' = out.cache
  /\ last' = call
  /\ hist' = IF "calls" \in track THEN HistAfter(hist, last, call, track) ELSE hist
  /\ UNCHANGED <<now, ticks, bypassList, defaultConfig, onErrorSet, flight, written>>

Consume(id, cost, ov, ns, fault, track) ==
  LET out == LimiterConsume(cache, bypassList, defaultConfig, onErrorSet,
                            id, cost, ov, ns, now, fault)
  IN Step(out, Call("consume", id, ns, cost, 0, MergeConfig(defaultConfig, ov), fault, out), track)

GetStatus(id, ov, ns, fault, track) ==
  LET out == LimiterGetStatus(cache, defaultConfig, onErrorSet, id, ov, ns, now, fault)
  IN Step(out, Call("getStatus", id, ns, 0, 0, MergeConfig(defaultConfig, ov), fault, out), track)

Reset(id, ns, fault, track) ==
  LET out == LimiterReset(cache, id, ns, fault)
  IN Step(out, Call("reset", id, ns, 0, 0, defaultConfig, fault, out), track)

Block(id, duration, ns, fault, track) ==
  LET out == LimiterBlock(cache, id, duration, ns, now, fault)
  IN Step(out, Call("block", id, ns, 0, duration, defaultConfig, fault, out), track)

IsBlocked(id, ns, fault, track) ==
  LET out == LimiterIsBlocked(cache, id, ns, now, fault)
  IN Step(out, Call("isBlocked", id, ns, 0, 0, defaultConfig, fault, out), track)

BypassAdd(id) ==
  /\ bypassList' = AddBypass(bypassList, id)
  /\ UNCHANGED <<now, ticks, cache, defaultConfig, onErrorSet, last, hist, flight, written>>

BypassRemove(id) ==
  /\ bypassList' = RemoveBypass(bypassList, id)
  /\ UNCHANGED <<now, ticks, cache, defaultConfig, onErrorSet, last, hist, flight, written>>

\* The periodic sweep (setInterval(cleanup, 60000)): it may run at any instant.
Cleanup ==
  /\ cache' = StorageCleanup(cache, now)
  /\ UNCHANGED <<now, ticks, bypassList, defaultConfig, onErrorSet, last, hist, flight, written>>

\* Time passes: step milliseconds, at most maxTicks times.
Tick(step, maxTicks) ==
  /\ ticks < maxTicks
  /\ now' = now + step
  /\ ticks' = ticks + 1
  /\ UNCHANGED <<cache, bypassList, defaultConfig, onErrorSet, last, hist, flight, written>>

\* The callers whose consume calls may be in flight together, and a caller's
\* call: suspended between its storage.get and its storage.set (pc = "got"), or
\* returned (pc = "done"); read is what the get answered, at the Date.now() the
\* call took, stale whether the record changed between its get and its set.
Callers == 1..MaxInFlight

IdleCall ==
  [pc |-> "idle", read |-> Null, at |-> 0, allowed |-> FALSE, wrote |-> Null, stale |-> FALSE]

\* No call is suspended; issued and admitted count the calls begun and allowed.
NoFlight == [calls |-> [p \in Callers |-> IdleCall], issued |-> 0, admitted |-> 0]

\* consume up to its await of storage.get.  The calls are counted, and capped,
\* where maxIssued > 0.
ConsumeStart(p, id, maxIssued) ==
  LET key == StrategyBuildKey(DefaultKeyGenerator(SanitizeIdentifier(id), NoNamespace))
      got == StorageGet(cache, key, now)
  IN
  /\ flight.calls[p].pc # "got"
  /\ maxIssued > 0 => flight.issued < maxIssued
  /\ ~ShouldBypass(bypassList, SanitizeIdentifier(id))
  /\ cache' = got.cache
  /\ flight' = [flight EXCEPT
                  !.calls[p] = [IdleCall EXCEPT !.pc = "got", !.read = got.data, !.at = now],
                  !.issued = IF maxIssued > 0 THEN @ + 1 ELSE @]
  /\ UNCHANGED <<now, ticks, bypassList, defaultConfig, onErrorSet, last, hist, written>>

\* consume from the answer of storage.get to its return.  What the call did is
\* kept in flight where kept is TRUE.
ConsumeFinish(p, id, cost, kept) ==
  LET key    == StrategyBuildKey(DefaultKeyGenerator(SanitizeIdentifier(id), NoNamespace))
      config == MergeConfig(defaultConfig, NoOverride)
      mine   == flight.calls[p]
      out    == Caught(Plain(ConsumeAfterGet(cache, key, mine.read, cost, config,
                                             mine.at, now, "none")),
                       defaultConfig, mine.at, onErrorSet)
  IN
  /\ mine.pc = "got"
  /\ cache' = out.cache
  /\ last' = Call("consume", id, NoNamespace, cost, 0, config, "none", out)
  /\ flight' =
       IF kept
         THEN [flight EXCEPT
                 !.calls[p] = [mine EXCEPT !.pc = "done",
                                          !.allowed = out.result.allowed,
                                          !.wrote = out.wrote,
                                          !.stale = StorageGet(cache, key, now).data # mine.read],
                 !.admitted = @ + (IF out.result.allowed THEN 1 ELSE 0)]
         ELSE [flight EXCEPT !.calls[p] = IdleCall]
  /\ UNCHANGED <<now, ticks, bypassList, defaultConfig, onErrorSet, hist, written>>

\* The caller gives up a consume suspended at its await of storage.get: the call
\* goes no further.
Abandon(p) ==
  /\ flight.calls[p].pc = "got"
  /\ flight' = [flight EXCEPT !.calls[p].pc = "gone"]
  /\ UNCHANGED <<now, ticks, cache, bypassList, defaultConfig, onErrorSet, last, hist, written>>

InitWith(configs, registered) ==
  /\ now = MsPerSecond
  /\ ticks = 0
  /\ cache = <<>>
  /\ bypassList = {}
  /\ defaultConfig \in configs
  /\ onErrorSet \in registered
  /\ last = NoCall
  /\ hist = NoHist
  /\ flight = NoFlight
  /\ written = <<>>

(***************************************************************************)
(* Spec: one identifier, every configuration, the in-memory backend (which *)
(* never raises), sequential consume, reset and block calls.               *)
(***************************************************************************)
TheId == <<"a">>
Tracked == {"calls", "rate"}

Init == InitWith(Configs, {TRUE})

Next ==
  \/ \E cost \in 1..MaxCost : Consume(TheId, cost, NoOverride, NoNamespace, "none", Tracked)
  \/ Reset(TheId, NoNamespace, "none", Tracked)
  \/ \E d \in 0..MaxBlockDuration : Block(TheId, d, NoNamespace, "none", Tracked)
  \/ Tick(StepMs, MaxTicks)

Spec == Init /\ [][Next]_vars

\* The entry stored for the identifier and namespace of the last call.
LastFullKey ==
  StorageBuildKey(StrategyBuildKey(
    DefaultKeyGenerator(SanitizeIdentifier(last.id), last.ns)))

(***************************************************************************)
(* C1.  A never-seen identifier consumed with cost 1 by calls in immediate *)
(* succession under one config with points = P: the k-th call, 1 <= k <= P,*)
(* is allowed with remaining = P - k; the (P+1)-th is refused with         *)
(* remaining = 0.  hist.streak is k.                                       *)
(***************************************************************************)
C1_FreshDrain ==
  (last.op = "consume" /\ hist.streak >= 1) =>
    LET P == last.cfg.points
        k == hist.streak
    IN /\ k <= P => (last.res.allowed /\ last.res.remaining = P - k)
       /\ k = P + 1 => (~last.res.allowed /\ last.res.remaining = 0)

C1_Witness ==
  /\ last.op = "consume"
  /\ last.cfg.points = MaxPoints
  /\ hist.streak = MaxPoints + 1
  /\ ~last.res.allowed

(***************************************************************************)
(* C2.  Rate bound.  Sequential consume calls on one identifier under one  *)
(* config (points P, duration D), no reset or block call among them: the   *)
(* costs allowed inside any window of T seconds add up to at most          *)
(* P + T * P / D.  hist.grants lists the allowed costs by instant; the     *)
(* window from grant i to grant j is the shortest that holds them.         *)
(***************************************************************************)
RECURSIVE GrantSum(_, _, _)
GrantSum(g, i, j) == IF i > j THEN 0 ELSE g[i].cost + GrantSum(g, i + 1, j)

C3_BlockEscalation ==
  hist.escUntil > now =>
    /\ LimiterIsBlocked(cache, last.id, last.ns, now, "none").ret
    /\ (last.op = "consume" /\ ~hist.escNew) =>
         (~last.res.allowed /\ last.res.isBlocked)

\* A consume refused as blocked although the refill since the refusal covers its cost.
C3_Witness ==
  /\ hist.escUntil > now
  /\ last.op = "consume" /\ ~hist.escNew /\ last.res.isBlocked
  /\ LastFullKey \in DOMAIN cache
  /\ RefillTokens(cache[LastFullKey].data, last.cfg, now).tokens >= last.cost * TokenUnit

(***************************************************************************)
(* C9.  Reset.  The first consume after a reset returns what a consume on  *)
(* an empty storage returns: allowed iff cost <= points, the full bucket   *)
(* less the cost, consumed counted from 0, not blocked; and reset never    *)
(* throws, whether or not a record is stored.                              *)
(***************************************************************************)
C9_ResetFresh ==
  /\ (last.op = "consume" /\ hist.afterReset) =>
       /\ last.res = LimiterConsume(<<>>, {}, defaultConfig, onErrorSet, last.id,
                                    last.cost, NoOverride, last.ns, last.at, "none").result
       /\ ~last.res.isBlocked
       /\ last.cost <= last.cfg.points =>
            /\ last.res.allowed
            /\ last.res.remaining = last.cfg.points - last.cost
            /\ last.res.consumed = last.cost
  /\ last.op = "reset" => ~last.threw

\* The first consume after the reset of an identifier that was being refused as blocked.
C9_Witness ==
  /\ last.op = "consume" /\ hist.afterReset
  /\ hist.resetFrom = "blocked"
  /\ last.res.allowed

(***************************************************************************)
(* SpecRefill: the configuration points = 10, duration = 10 (one token a   *)
(* second), one identifier, consume calls and the clock, for               *)
(* RefillSeconds seconds.                                                  *)
(***************************************************************************)
InitRefill == InitWith({RefillConfig}, {TRUE})

NextRefill ==
  \/ \E cost \in 1..MaxCost : Consume(TheId, cost, NoOverride, NoNamespace, "none", {"calls"})
  \/ Tick(StepMs, RefillSeconds * (MsPerSecond \div StepMs))

SpecRefill == InitRefill /\ [][NextRefill]_vars

(***************************************************************************)
(* C10.  Refill.  With points = 10 and duration = 10, when a consume has   *)
(* left the bucket at 0 tokens and k whole seconds pass with no call       *)
(* (hist.quiet, in ms), consume(cost = 1) is allowed with                  *)
(* remaining = min(10, k) - 1.                                             *)
(***************************************************************************)
C10_Refill ==
  (/\ last.op = "consume" /\ last.cost = 1 /\ last.cfg = RefillConfig
   /\ hist.quiet >= MsPerSecond /\ hist.quiet % MsPerSecond = 0) =>
    /\ last.res.allowed
    /\ last.res.remaining = Min(RefillConfig.points, hist.quiet \div MsPerSecond) - 1

\* remaining = 4 after 5 seconds.
C10_Witness ==
  /\ last.op = "consume" /\ last.cost = 1 /\ last.cfg = RefillConfig
  /\ hist.quiet = 5 * MsPerSecond
  /\ last.res.allowed /\ last.res.remaining = 4

\* ... and after more than ten seconds, when the drained record has expired.
C10_WitnessExpired ==
  /\ last.op = "consume" /\ last.cost = 1
  /\ hist.quiet > RefillConfig.duration * MsPerSecond
  /\ hist.quiet % MsPerSecond = 0
  /\ last.res.remaining = RefillConfig.points - 1

(***************************************************************************)
(* SpecFault: a storage backend whose get, set and delete may raise (the   *)
(* IRateLimitStorage contract allows it; the in-memory backend never       *)
(* does), per-call config overrides, onError registered or not.            *)
(***************************************************************************)
FaultConfigs == [points : {MaxPoints}, duration : {1}, blockDuration : 0..MaxBlockDuration]
Overrides == {NoOverride, [points |-> 1]}

InitFault == InitWith(FaultConfigs, BOOLEAN)

NextFault ==
  \/ \E cost \in 1..MaxCost, ov \in Overrides, fault \in {"none", "get", "set"} :
       Consume(TheId, cost, ov, NoNamespace, fault, {})
  \/ \E ov \in Overrides, fault \in {"none", "get"} :
       GetStatus(TheId, ov, NoNamespace, fault, {})
  \/ \E fault \in {"none", "delete"} : Reset(TheId, NoNamespace, fault, {})
  \/ \E d \in 0..MaxBlockDuration, fault \in {"none", "set"} :
       Block(TheId, d, NoNamespace, fault, {})
  \/ \E fault \in {"none", "get"} : IsBlocked(TheId, NoNamespace, fault, {})
  \/ Tick(StepMs, FaultTicks)

SpecFault == InitFault /\ [][NextFault]_vars

\* What the last consume would have done had the storage not raised: a call that
\* fails leaves the cache as it was, so this is read from the state it left.
WouldHave ==
  LimiterConsume(cache, bypassList, defaultConfig, onErrorSet, last.id, last.cost,
                 last.cfg, last.ns, last.at, "none")

\* The storage raised during the last call: its get, or the set it went on to.
StorageRaised ==
  \/ last.op \in {"consume", "getStatus"} /\ last.fault = "get"
  \/ last.op = "consume" /\ last.fault = "set" /\ ~IsNull(WouldHave.wrote)

(***************************************************************************)
(* C4.  Fail-open.  When the storage raises on get or set during consume   *)
(* or getStatus, the call returns allowed = true with remaining and limit  *)
(* the default config's points and retryAfter = 0, and a registered        *)
(* onError is invoked exactly once; also when the call would have been     *)
(* refused.                                                                *)
(***************************************************************************)
C4_FailOpen ==
  StorageRaised =>
    /\ ~last.threw
    /\ last.res.allowed
    /\ last.res.remaining = defaultConfig.points
    /\ last.res.limit = defaultConfig.points
    /\ last.res.retryAfter = 0
    /\ onErrorSet => last.onError = 1

\* A set that raises in a consume which would have been refused, under an
\* override of points.
C4_Witness ==
  /\ last.op = "consume" /\ last.fault = "set"
  /\ WouldHave.branch = "rejected"
  /\ last.cfg.points # defaultConfig.points
  /\ last.res.allowed /\ last.res.remaining = defaultConfig.points
  /\ onErrorSet /\ last.onError = 1

(***************************************************************************)
(* C5.  No public operation of the limiter throws to its caller when the   *)
(* storage fails.  (reset, block and isBlocked have no try/catch.)         *)
(***************************************************************************)
C5_NeverThrows == ~last.threw

\* What does hold: consume and getStatus never throw.
C5_GuardedNeverThrow == last.op \in {"consume", "getStatus"} => ~last.threw

(***************************************************************************)
(* SpecKeys: two raw identifiers that differ in one character outside      *)
(* [a-zA-Z0-9._-], the namespace absent or "n", the bypass list edited     *)
(* while calls go on.                                                      *)
(***************************************************************************)
IdColon == <<"a", ":">>
IdUnderscore == <<"a", "_">>
KeyIds == {IdColon, IdUnderscore}
KeyNamespaces == {NoNamespace, Ns(<<"n">>)}
KeysConfig == [points |-> 2, duration |-> 1, blockDuration |-> 0]

InitKeys == InitWith({KeysConfig}, {TRUE})

NextKeys ==
  \/ \E id \in KeyIds, ns \in KeyNamespaces : Consume(id, 1, NoOverride, ns, "none", {})
  \/ \E id \in KeyIds, ns \in KeyNamespaces : GetStatus(id, NoOverride, ns, "none", {})
  \/ \E id \in KeyIds, ns \in KeyNamespaces : Reset(id, ns, "none", {})
  \/ \E id \in KeyIds, ns \in KeyNamespaces : Block(id, 1, ns, "none", {})
  \/ \E id \in KeyIds, ns \in KeyNamespaces : IsBlocked(id, ns, "none", {})
  \/ \E id \in KeyIds : BypassAdd(id)
  \/ \E id \in KeyIds : BypassRemove(id)
  \/ Tick(StepMs, KeysTicks)

SpecKeys == InitKeys /\ [][NextKeys]_vars

(***************************************************************************)
(* C6.  Bypass precedence: for every identifier x, after addBypass(x) and  *)
(* until removeBypass(x), every consume(x) returns allowed = true.         *)
(* (addBypass stores x as given; consume looks up the sanitized x.)        *)
(***************************************************************************)
C6_BypassPrecedence == (last.op = "consume" /\ last.listed) => last.res.allowed

\* What does hold: an identifier that sanitization leaves alone is served while listed.
C6_SafeIdBypassed ==
  (last.op = "consume" /\ last.listed /\ last.id = IdUnderscore) =>
    (last.res.allowed /\ last.branch = "bypass")

(***************************************************************************)
(* SpecNamespaces: one raw identifier under the namespace absent, empty,   *)
(* "n" or "m"; consume, block and reset calls.                             *)
(***************************************************************************)
Namespaces == {NoNamespace, Ns(<<>>), Ns(<<"n">>), Ns(<<"m">>)}

InitNamespaces == InitWith({KeysConfig}, {TRUE})

NextNamespaces ==
  \/ \E ns \in Namespaces : Consume(IdColon, 1, NoOverride, ns, "none", {})
  \/ \E ns \in Namespaces : Reset(IdColon, ns, "none", {})
  \/ \E ns \in Namespaces : Block(IdColon, 1, ns, "none", {})
  \/ Tick(StepMs, NamespaceTicks)

SpecNamespaces == InitNamespaces /\ [][NextNamespaces]_vars

\* What the limiter stores for an identifier under a namespace, at time t.
Entry(c, id, ns, t) ==
  StorageGet(c, StrategyBuildKey(DefaultKeyGenerator(SanitizeIdentifier(id), ns)), t).data

\* A step that is a consume, block or reset call.
WriteCall == now' = now /\ last'.op \in {"consume", "block", "reset"}

(***************************************************************************)
(* C7.  Namespacing: for one raw identifier and any two different          *)
(* namespace values, a consume, block or reset under one never changes the *)
(* tokens, consumed counter or block state stored under the other.         *)
(* (An empty-string namespace yields the key of an absent one.)            *)
(***************************************************************************)
C7_Namespacing ==
  [][WriteCall =>
       \A m \in Namespaces \ {last'.ns} :
         Entry(cache', last'.id, m, now) = Entry(cache, last'.id, m, now)]_vars

(***************************************************************************)
(* C7, amended.  The same for any two namespaces that differ once an empty *)
(* string is taken as an absent namespace.                                 *)
(***************************************************************************)
C7_NamespacingAmended ==
  [][WriteCall =>
       \A m \in Namespaces \ {last'.ns} :
         (m.str # <<>> \/ last'.ns.str # <<>>) =>
           Entry(cache', last'.id, m, now) = Entry(cache, last'.id, m, now)]_vars

\* A consume is served from a full bucket under "n" while the buckets of the same
\* identifier under "m" and under no namespace stand exhausted.
C7_Witness ==
  /\ last.op = "consume" /\ last.ns = Ns(<<"n">>)
  /\ last.res.allowed /\ last.res.remaining = defaultConfig.points - 1
  /\ \A m \in {NoNamespace, Ns(<<"m">>)} :
       /\ ~IsNull(Entry(cache, last.id, m, now))
       /\ Entry(cache, last.id, m, now).tokens = 0

(***************************************************************************)
(* C8.  Sanitization: two raw identifiers with the same sanitized form     *)
(* ("a:" and "a_") under one namespace address one bucket for consume,     *)
(* getStatus, reset, block and isBlocked: what a call through one did or   *)
(* saw is what the other sees at that instant.                             *)
(***************************************************************************)
OtherId == IF last.id = IdColon THEN IdUnderscore ELSE IdColon

SeenThroughOther ==
  LimiterGetStatus(cache, defaultConfig, onErrorSet, OtherId, NoOverride, last.ns,
                   last.at, "none").result

BlockedThroughOther == LimiterIsBlocked(cache, OtherId, last.ns, last.at, "none").ret

C8_Sanitization ==
  /\ (last.op = "consume" /\ last.branch # "bypass") =>
       /\ SeenThroughOther.remaining = last.res.remaining
       /\ SeenThroughOther.consumed = last.res.consumed
       /\ SeenThroughOther.isBlocked = last.res.isBlocked
  /\ last.op = "getStatus" => SeenThroughOther = last.res
  /\ last.op = "reset" =>
       /\ SeenThroughOther.remaining = defaultConfig.points
       /\ SeenThroughOther.consumed = 0
       /\ ~BlockedThroughOther
  /\ last.op = "block" => BlockedThroughOther /\ SeenThroughOther.isBlocked
  /\ last.op = "isBlocked" => BlockedThroughOther = last.ret

\* A consume through "a:" is seen in the balance read through "a_".
C8_Witness ==
  /\ last.op = "consume" /\ last.id = IdColon /\ last.res.allowed
  /\ last.res.remaining = defaultConfig.points - 1
  /\ SeenThroughOther.remaining = defaultConfig.points - 1

(***************************************************************************)
(* SpecBalance: one identifier, a default configuration, consume with any  *)
(* cost and a per-call override of points or duration, getStatus,          *)
(* block and reset, under a clock that never goes back.                    *)
(***************************************************************************)
BalanceOverrides ==
  {NoOverride} \cup {[points |-> p] : p \in 1..MaxPoints} \cup {[duration |-> MaxDuration]}

InitBalance == InitWith(FaultConfigs, {TRUE})

NextBalance ==
  \/ \E cost \in 1..MaxCost, ov \in BalanceOverrides :
       Consume(TheId, cost, ov, NoNamespace, "none", {})
  \/ \E ov \in BalanceOverrides : GetStatus(TheId, ov, NoNamespace, "none", {})
  \/ \E d \in 0..MaxBlockDuration : Block(TheId, d, NoNamespace, "none", {})
  \/ Reset(TheId, NoNamespace, "none", {})
  \/ Tick(StepMs, BalanceTicks)

SpecBalance == InitBalance /\ [][NextBalance]_vars

RaceConfigs == [points : 1..MaxPoints, duration : {1}, blockDuration : {0}]

InitRace == InitWith(RaceConfigs, {TRUE})

NextRace ==
  \/ \E p \in Callers : ConsumeStart(p, TheId, MaxIssued)
  \/ \E p \in Callers : ConsumeFinish(p, TheId, 1, TRUE)

SpecRace == InitRace /\ [][NextRace]_vars

\* The balance a call found: a full bucket when the get answered null.
Found(call) ==
  IF IsNull(call.read) THEN defaultConfig.points * TokenUnit ELSE call.read.tokens

(***************************************************************************)
(* C12.  Documented race: when two consume calls for one identifier both   *)
(* read the record before either writes and the balance covers only one of *)
(* them, both return allowed = true and the record stored afterwards       *)
(* reflects one deduction only; this state is reachable.                   *)
(***************************************************************************)
C12_LostUpdate ==
  \A p, q \in Callers :
    (/\ p # q
     /\ flight.calls[p].pc = "done" /\ flight.calls[q].pc = "done"
     /\ flight.calls[p].read = flight.calls[q].read
     /\ Found(flight.calls[p]) = TokenUnit
     /\ flight.calls[q].stale
     /\ last.wrote = flight.calls[q].wrote) =>
      /\ flight.calls[p].allowed /\ flight.calls[q].allowed
      /\ cache[LastFullKey].data.tokens = 0
      /\ cache[LastFullKey].data.consumed =
           (IF IsNull(flight.calls[q].read) THEN 0 ELSE flight.calls[q].read.consumed) + 1

\* Two calls have read a balance of one token, both have returned allowed, and
\* the record holds one deduction.
C12_Witness ==
  \E p, q \in Callers :
    /\ p # q
    /\ flight.calls[p].pc = "done" /\ flight.calls[q].pc = "done"
    /\ flight.calls[p].read = flight.calls[q].read
    /\ Found(flight.calls[p]) = TokenUnit
    /\ flight.calls[q].stale
    /\ flight.calls[p].allowed /\ flight.calls[q].allowed
    /\ flight.admitted = flight.issued
    /\ cache[LastFullKey].data.tokens = 0

(***************************************************************************)
(* C13.  Bounded over-admission: with points = P, no time elapsing and at  *)
(* most N consume calls of cost 1 in flight at any moment, at most N * P   *)
(* calls return allowed = true, however many are issued.                   *)
(***************************************************************************)
C13_BoundedOverAdmission == flight.admitted <= MaxInFlight * defaultConfig.points

\* What a consume of the given cost, and an isBlocked, would answer on cache c now.
WouldConsume(c, cost) ==
  LimiterConsume(c, bypassList, defaultConfig, onErrorSet, TheId, cost, NoOverride,
                 NoNamespace, now, "none")

WouldBeBlocked(c) == LimiterIsBlocked(c, TheId, NoNamespace, now, "none").ret

\* A step that is a getStatus call.
StatusCall == now' = now /\ last'.op = "getStatus"

(***************************************************************************)
(* C14.  getStatus is a read-only preview: it creates no record and        *)
(* changes none (an entry it drops had expired), so that every consume and *)
(* isBlocked answers after it as it would have before it; and it reports   *)
(* allowed = false, remaining = 0, isBlocked = true exactly where consume  *)
(* would take the blocked branch.                                          *)
(***************************************************************************)
C14_StatusReadOnly ==
  [][StatusCall =>
       /\ DOMAIN cache' \subseteq DOMAIN cache
       /\ \A k \in DOMAIN cache :
            IF k \in DOMAIN cache' THEN cache'[k] = cache[k] ELSE now > cache[k].expiresAt
       /\ \A cost \in 1..MaxCost : WouldConsume(cache', cost) = WouldConsume(cache, cost)
       /\ WouldBeBlocked(cache') = WouldBeBlocked(cache)
       /\ last'.res.isBlocked <=> WouldConsume(cache, 1).branch = "blocked"
       /\ last'.res.isBlocked => (~last'.res.allowed /\ last'.res.remaining = 0)]_vars

\* A getStatus has shown a balance refilled beyond the one stored, which stays
\* as it was written.
C14_Witness ==
  /\ last.op = "getStatus" /\ last.branch = "status"
  /\ LastFullKey \in DOMAIN cache
  /\ cache[LastFullKey].data.lastRefill < last.at
  /\ last.res.remaining > cache[LastFullKey].data.tokens \div TokenUnit

\* A getStatus has answered blocked.
C14_WitnessBlocked == last.op = "getStatus" /\ last.res.isBlocked /\ ~last.res.allowed

(***************************************************************************)
(* SpecStorage: MemoryRateLimitStorage driven directly: set, get and       *)
(* delete on two keys, the sweep running at any moment, the clock moving   *)
(* in half seconds.                                                        *)
(***************************************************************************)
StorageKeys == {StrategyBuildKey(<<"a">>), StrategyBuildKey(<<"b">>)}
StorageData == {FreshData(KeysConfig, 0), BlockData(0, 0)}

StorageCall(op, key, got, present) ==
  [op |-> op, id |-> key, at |-> now, got |-> got, present |-> present]

StoreSet(key, data, ttlInSeconds) ==
  /\ cache' = StorageSet(cache, key, data, ttlInSeconds, now)
  /\ written' = [k \in DOMAIN written \cup {key} |->
                   IF k = key THEN [data |-> data, at |-> now, ttl |-> ttlInSeconds]
                              ELSE written[k]]
  /\ last' = StorageCall("set", key, Null, FALSE)
  /\ UNCHANGED <<now, ticks, bypassList, defaultConfig, onErrorSet, hist, flight>>

\* present: whether the map held an entry under the key when get was called.
StoreGet(key) ==
  /\ cache' = StorageGet(cache, key, now).cache
  /\ last' = StorageCall("get", key, StorageGet(cache, key, now).data,
                         StorageBuildKey(key) \in DOMAIN cache)
  /\ UNCHANGED <<now, ticks, bypassList, defaultConfig, onErrorSet, hist, flight, written>>

StoreDelete(key) ==
  /\ cache' = StorageDelete(cache, key)
  /\ written' = [k \in DOMAIN written \ {key} |-> written[k]]
  /\ last' = StorageCall("delete", key, Null, FALSE)
  /\ UNCHANGED <<now, ticks, bypassList, defaultConfig, onErrorSet, hist, flight>>

InitStorage == InitWith({KeysConfig}, {TRUE})

NextStorage ==
  \/ \E key \in StorageKeys, data \in StorageData, ttl \in 1..MaxTtl : StoreSet(key, data, ttl)
  \/ \E key \in StorageKeys : StoreGet(key)
  \/ \E key \in StorageKeys : StoreDelete(key)
  \/ Cleanup
  \/ Tick(StepMs, StorageTicks)

SpecStorage == InitStorage /\ [][NextStorage]_vars

\* What a map with TTLs, never swept, answers to the last get: the data of the
\* last set on the key not deleted since, unless more than its TTL has passed.
Retained ==
  IF last.id \in DOMAIN written
       /\ ~(last.at > written[last.id].at + written[last.id].ttl * MsPerSecond)
    THEN written[last.id].data
    ELSE Null

(***************************************************************************)
(* C15.  Storage expiry: get answers absent for an entry whose TTL,        *)
(* counted from the set that wrote it, has passed, also while the entry is *)
(* still in the map; and the sweep is unobservable: whenever cleanup has   *)
(* run or not, get answers what the sets and deletes alone determine.      *)
(***************************************************************************)
C15_Expiry == last.op = "get" => last.got = Retained

\* A get has answered absent for an entry that was still in the map.
C15_Witness ==
  /\ last.op = "get" /\ last.present /\ IsNull(last.got)
  /\ last.id \in DOMAIN written

\* A get has answered absent for an entry that the sweep had removed.
C15_WitnessSwept ==
  /\ last.op = "get" /\ ~last.present /\ IsNull(last.got)
  /\ last.id \in DOMAIN written

\* The storage key of the one identifier that Spec follows.
TheFullKey == StorageBuildKey(StrategyBuildKey(DefaultKeyGenerator(TheId, NoNamespace)))

(***************************************************************************)
(* C16.  Manual block: block(identifier, d) overwrites the record with     *)
(* tokens = 0, consumed = 0, blockUntil = now + d * 1000 under a TTL of    *)
(* d + 60 seconds; with sequential calls and no reset (nor another block), *)
(* at every instant before d seconds have passed isBlocked is true and     *)
(* every consume is refused with isBlocked = true, and the record is still *)
(* in storage.  hist.manualUntil is the blockUntil of the block in force.  *)
(***************************************************************************)
C16_ManualBlock ==
  /\ last.op = "block" =>
       /\ last.wrote = [tokens |-> 0, lastRefill |-> last.at, consumed |-> 0,
                        blockUntil |-> last.at + last.dur * MsPerSecond]
       /\ last.ttl = last.dur + 60
       /\ cache[TheFullKey] =
            [data |-> last.wrote, expiresAt |-> last.at + (last.dur + 60) * MsPerSecond]
  /\ hist.manualUntil > now =>
       /\ TheFullKey \in DOMAIN cache
       /\ cache[TheFullKey].data.blockUntil = hist.manualUntil
       /\ cache[TheFullKey].expiresAt >= hist.manualUntil
       /\ WouldBeBlocked(cache)
       /\ \A cost \in 1..MaxCost :
            /\ ~WouldConsume(cache, cost).result.allowed
            /\ WouldConsume(cache, cost).result.isBlocked
  /\ (last.op = "consume" /\ hist.manualUntil > last.at) =>
       (~last.res.allowed /\ last.res.isBlocked)

\* Half a second before the end of a manual block a consume is refused as blocked.
C16_Witness ==
  /\ last.op = "consume" /\ hist.manualUntil = last.at + StepMs
  /\ ~last.res.allowed /\ last.res.isBlocked
  /\ last.res.consumed = 0

(***************************************************************************)
(* SpecCancel: a consume call on one identifier that may be given up while *)
(* suspended at the storage boundary, among consume, block and reset calls *)
(* that run to their end, while time passes.                               *)
(***************************************************************************)
InitCancel == InitWith(FaultConfigs, {TRUE})

NextCancel ==
  \/ ConsumeStart(1, TheId, MaxIssued)
  \/ ConsumeFinish(1, TheId, 1, FALSE)
  \/ Abandon(1)
  \/ Consume(TheId, 1, NoOverride, NoNamespace, "none", {})
  \/ Block(TheId, 1, NoNamespace, "none", {})
  \/ Reset(TheId, NoNamespace, "none", {})
  \/ Tick(StepMs, CancelTicks)

SpecCancel == InitCancel /\ [][NextCancel]_vars

\* The record another call would find under the identifier's key in cache c.
Observable(c) == StorageGet(c, StrategyBuildKey(DefaultKeyGenerator(TheId, NoNamespace)), now).data

\* The caller whose consume returns in this step, if any.
Finishing(p) == flight.calls[p].pc = "got" /\ flight'.calls[p].pc = "idle"

(***************************************************************************)
(* C17.  Cancellation atomicity: consume, block and reset each make at     *)
(* most one storage write, after all the arithmetic, so whatever step a    *)
(* call has reached when it is given up, the record that other calls find  *)
(* for the key is the one from before or the complete one the call writes: *)
(* a step changes it only by a returning consume's whole record, a block's *)
(* whole record or a reset's removal.                                      *)
(***************************************************************************)
C17_CancellationAtomic ==
  [][now' = now =>
       \/ Observable(cache') = Observable(cache)
       \/ \E p \in Callers :
            /\ Finishing(p)
            /\ Observable(cache') = last'.wrote
            /\ Observable(cache') =
                 ConsumeAfterGet(<<>>, TheId, flight.calls[p].read, 1, defaultConfig,
                                 flight.calls[p].at, now, "none").wrote
       \/ /\ flight' = flight /\ last'.op = "consume"
          /\ Observable(cache') = last'.wrote
       \/ /\ flight' = flight /\ last'.op = "block"
          /\ Observable(cache') = BlockData(last'.dur, now)
       \/ /\ flight' = flight /\ last'.op = "reset"
          /\ IsNull(Observable(cache'))]_vars

\* A consume was given up after its read, another call has since written, and the
\* record found is that call's whole record.
C17_Witness ==
  \E p \in Callers :
    /\ flight.calls[p].pc = "gone" /\ ~IsNull(flight.calls[p].read)
    /\ last.op = "consume" /\ ~IsNull(last.wrote)
    /\ Observable(cache) = last.wrote
    /\ Observable(cache) # flight.calls[p].read

\* A step that is a consume call made while the stored record is blocked.
BlockedConsume ==
  /\ now' = now /\ last'.op = "consume"
  /\ ~IsNull(Observable(cache)) /\ Observable(cache).blockUntil > now

(***************************************************************************)
(* C18.  Blocked short-circuit: when the stored record has blockUntil >    *)
(* now, consume returns allowed = false, remaining = 0, isBlocked = true,  *)
(* resetAt = blockUntil, retryAfter = ceil((blockUntil - now) / 1000), and *)
(* leaves the storage as it was: the record and its expiry time.           *)
(***************************************************************************)
C18_BlockedShortCircuit ==
  [][BlockedConsume =>
       LET blockUntil == Observable(cache).blockUntil IN
       /\ ~last'.res.allowed
       /\ last'.res.remaining = 0
       /\ last'.res.isBlocked
       /\ last'.res.resetAt = blockUntil
       /\ last'.res.retryAfter * 1000 >= blockUntil - now
       /\ (last'.res.retryAfter - 1) * 1000 < blockUntil - now
       /\ cache' = cache]_vars

\* A consume made later than the write of the block is refused as blocked, with
\* one second to wait, and the stored record is the one written then.
C18_Witness ==
  /\ last.op = "consume" /\ last.branch = "blocked"
  /\ last.res.retryAfter = 1
  /\ TheFullKey \in DOMAIN cache
  /\ cache[TheFullKey].data.blockUntil = last.res.resetAt
  /\ cache[TheFullKey].data.lastRefill < last.at

\* A step that is a consume call refused for insufficient tokens.
RejectedConsume == now' = now /\ last'.op = "consume" /\ last'.branch = "rejected"

(***************************************************************************)
(* C19.  Rejection costs nothing: a consume refused for insufficient       *)
(* tokens deducts none and leaves consumed as it was; it saves the         *)
(* refilled balance with lastRefill = now under a TTL of duration +        *)
(* (blockDuration or 60) seconds and returns allowed = false, remaining =  *)
(* floor(refilled tokens), retryAfter >= 1.                                *)
(***************************************************************************)
C19_RejectionFree ==
  [][RejectedConsume =>
       LET found    == IF IsNull(Observable(cache))
                         THEN [tokens |-> last'.cfg.points * TokenUnit, lastRefill |-> now,
                               consumed |-> 0, blockUntil |-> 0]
                         ELSE Observable(cache)
           refilled == Min(last'.cfg.points * TokenUnit,
                           found.tokens + (now - found.lastRefill) * UnitsPerMs(last'.cfg))
           ttl      == last'.cfg.duration +
                         (IF last'.cfg.blockDuration # 0 THEN last'.cfg.blockDuration ELSE 60)
       IN
       /\ cache'[TheFullKey].data.tokens = refilled
       /\ refilled < last'.cost * TokenUnit
       /\ cache'[TheFullKey].data.consumed = found.consumed
       /\ cache'[TheFullKey].data.lastRefill = now
       /\ cache'[TheFullKey].expiresAt = now + ttl * 1000
       /\ ~last'.res.allowed
       /\ last'.res.remaining * TokenUnit <= refilled
       /\ (last'.res.remaining + 1) * TokenUnit > refilled
       /\ last'.res.consumed = found.consumed
       /\ last'.res.retryAfter >= 1]_vars

\* A consume of cost 2 is refused on a refilled balance between 1 and 2, under a
\* config with no blockDuration: remaining 1, saved for duration + 60 seconds.
C19_Witness ==
  /\ last.op = "consume" /\ last.branch = "rejected"
  /\ last.cost = 2 /\ last.res.remaining = 1
  /\ last.cfg.blockDuration = 0
  /\ cache[TheFullKey].expiresAt = last.at + (last.cfg.duration + 60) * 1000
  /\ cache[TheFullKey].data.tokens > TokenUnit

(***************************************************************************)
(* C20.  isBlocked returns true if and only if a record is stored for the  *)
(* identifier, it has a blockUntil, and blockUntil > now; so it returns    *)
(* true exactly when a consume issued at the same instant would return     *)
(* isBlocked = true.                                                       *)
(***************************************************************************)
C20_IsBlocked ==
  (last.op = "isBlocked" /\ ~last.threw) =>
    /\ last.ret <=>
         /\ TheFullKey \in DOMAIN cache
         /\ ~(last.at > cache[TheFullKey].expiresAt)
         /\ cache[TheFullKey].data.blockUntil # 0
         /\ cache[TheFullKey].data.blockUntil > last.at
    /\ \A cost \in 1..MaxCost, ov \in Overrides :
         last.ret <=>
           LimiterConsume(cache, bypassList, defaultConfig, onErrorSet, TheId, cost, ov,
                          NoNamespace, last.at, "none").result.isBlocked

\* isBlocked has answered true.
C20_Witness ==
  /\ last.op = "isBlocked" /\ last.ret
  /\ cache[TheFullKey].data.blockUntil > last.at

\* isBlocked has answered false on a record whose blockUntil is not in the future.
C20_WitnessOver ==
  /\ last.op = "isBlocked" /\ ~last.ret /\ ~last.threw
  /\ TheFullKey \in DOMAIN cache
  /\ cache[TheFullKey].data.blockUntil # 0

(***************************************************************************)
(* SpecBypass: the two raw identifiers with one sanitized form, no         *)
(* namespace; consume and block calls while the bypass list is edited and  *)
(* time passes, so that stored records run out, are blocked and expire.    *)
(***************************************************************************)
InitBypass == InitWith({KeysConfig}, {TRUE})

NextBypass ==
  \/ \E id \in KeyIds : Consume(id, 1, NoOverride, NoNamespace, "none", {})
  \/ \E id \in KeyIds : Block(id, 1, NoNamespace, "none", {})
  \/ \E id \in KeyIds : BypassAdd(id)
  \/ \E id \in KeyIds : BypassRemove(id)
  \/ Tick(StepMs, BypassTicks)

SpecBypass == InitBypass /\ [][NextBypass]_vars

\* A step that is a consume call whose sanitized identifier is in the bypass list.
BypassedConsume ==
  /\ now' = now /\ bypassList' = bypassList /\ last'.op = "consume"
  /\ ShouldBypass(bypassList, SanitizeIdentifier(last'.id))

C21_WitnessExpired ==
  /\ last.op = "consume" /\ last.branch = "bypass"
  /\ LastFullKey \in DOMAIN cache
  /\ last.at > cache[LastFullKey].expiresAt

(***************************************************************************)
(* SpecCounter: one identifier, sequential consume (any cost), getStatus,  *)
(* reset and block calls under one configuration while time passes, long   *)
(* enough for the record of an allowed call to expire.                     *)
(***************************************************************************)
InitCounter == InitWith(FaultConfigs, {TRUE})

NextCounter ==
  \/ \E cost \in 1..MaxCost :
       Consume(TheId, cost, NoOverride, NoNamespace, "none", {"calls", "sum"})
  \/ GetStatus(TheId, NoOverride, NoNamespace, "none", {"calls", "sum"})
  \/ Reset(TheId, NoNamespace, "none", {"calls", "sum"})
  \/ \E d \in 0..MaxBlockDuration : Block(TheId, d, NoNamespace, "none", {"calls", "sum"})
  \/ Tick(StepMs, CounterTicks)

SpecCounter == InitCounter /\ [][NextCounter]_vars

\* The record stored for the identifier is in the map and has not expired.
Alive == TheFullKey \in DOMAIN cache /\ ~(now > cache[TheFullKey].expiresAt)

(***************************************************************************)
(* C22.  Consumed counter: with sequential calls on one identifier, the    *)
(* consumed returned by a consume is the sum of the costs of the consume   *)
(* calls allowed since the record was created (first use, reset, block or  *)
(* TTL expiry), which is hist.sum; an allowed call is saved under a TTL of *)
(* duration; refused, blocked and getStatus calls leave the counter as it  *)
(* was, so the stored counter is that sum at every moment.                 *)
(***************************************************************************)
C22_ConsumedCounter ==
  /\ last.op = "consume" => last.res.consumed = hist.sum
  /\ (last.op = "consume" /\ last.res.allowed) =>
       /\ last.ttl = last.cfg.duration
       /\ cache[TheFullKey].data.consumed = hist.sum
       /\ cache[TheFullKey].expiresAt = last.at + last.cfg.duration * 1000
  /\ Alive => cache[TheFullKey].data.consumed = hist.sum
  /\ (last.op = "getStatus" /\ last.at <= hist.liveUntil) => last.res.consumed = hist.sum

\* Allowed calls of cost 1 and 2 at different instants, then a refused one: the
\* counter stands at 3.
C22_Witness ==
  /\ last.op = "consume" /\ last.branch = "rejected"
  /\ last.res.consumed = 3
  /\ cache[TheFullKey].data.consumed = 3

\* The first call allowed after the record has expired counts from zero again.
C22_WitnessExpired ==
  /\ last.op = "consume" /\ last.res.allowed /\ last.at > MsPerSecond
  /\ hist.resetFrom = "none" /\ hist.manualUntil = -1
  /\ last.res.consumed = last.cost /\ last.res.remaining = last.cfg.points - last.cost
  /\ last.cost = MaxCost

(***************************************************************************)
(* SpecBlockRace: block calls on one identifier while a consume call on it *)
(* is in flight, suspended between its storage.get and its storage.set;    *)
(* consume and isBlocked calls that run to their end; time passes.         *)
(***************************************************************************)
InitBlockRace == InitWith(FaultConfigs, {TRUE})

NextBlockRace ==
  \/ ConsumeStart(1, TheId, 0)
  \/ ConsumeFinish(1, TheId, 1, FALSE)
  \/ \E d \in 1..MaxBlockDuration : Block(TheId, d, NoNamespace, "none", {"calls"})
  \/ Consume(TheId, 1, NoOverride, NoNamespace, "none", {"calls"})
  \/ IsBlocked(TheId, NoNamespace, "none", {"calls"})
  \/ Tick(StepMs, BlockRaceTicks)

SpecBlockRace == InitBlockRace /\ [][NextBlockRace]_vars

(***************************************************************************)
(* C23.  A block is not undone by concurrent traffic: once block(id, d)    *)
(* has returned and until d seconds have passed (hist.manualUntil), no     *)
(* consume on the identifier returns allowed = true and isBlocked answers  *)
(* true, also when consume calls had read the record before the block and  *)
(* were still in flight.  (Such a call saves the record it computed from   *)
(* its read over the block's.)                                             *)
(***************************************************************************)
C23_BlockNotUndone ==
  hist.manualUntil > now =>
    /\ WouldBeBlocked(cache)
    /\ last.op = "consume" => ~last.res.allowed
    /\ last.op = "isBlocked" => last.ret

\* What does hold: a consume that begins after the block, with none in flight
\* from before, is refused as blocked.
C23_BlockHoldsWhenQuiet ==
  (/\ hist.manualUntil > now
   /\ last.op = "block"
   /\ \A p \in Callers : flight.calls[p].pc # "got") =>
    /\ WouldBeBlocked(cache)
    /\ ~WouldConsume(cache, 1).result.allowed

(***************************************************************************)
(* SpecRetry: one identifier, sequential consume calls under one           *)
(* configuration, with no blockDuration or one of RetryBlockDuration       *)
(* seconds, while time passes.                                             *)
(***************************************************************************)
RetryConfigs ==
  [points : 1..MaxPoints, duration : Durations, blockDuration : {0, RetryBlockDuration}]

InitRetry == InitWith(RetryConfigs, {TRUE})

NextRetry ==
  \/ \E cost \in 1..MaxCost :
       Consume(TheId, cost, NoOverride, NoNamespace, "none", {"calls", "before"})
  \/ Tick(StepMs, RetryTicks)

SpecRetry == InitRetry /\ [][NextRetry]_vars

\* The last call is a consume that repeats, retryAfter seconds later and with no
\* call in between, a consume refused for insufficient tokens.
RetriedInTime ==
  /\ last.op = "consume" /\ last.cost <= last.cfg.points
  /\ hist.before.op = "consume" /\ hist.before.branch = "rejected"
  /\ hist.before.cost = last.cost
  /\ last.at = hist.before.at + hist.before.retryAfter * MsPerSecond

(***************************************************************************)
(* C24.  retryAfter is sufficient: for every config, with or without       *)
(* blockDuration, and every cost <= points, when a consume is refused for  *)
(* insufficient tokens with retryAfter = r, a consume of the same cost on  *)
(* the identifier r seconds later, with no call in between, is allowed.    *)
(* (The refusal sets blockUntil = now + blockDuration * 1000, which r does *)
(* not take into account.)                                                 *)
(***************************************************************************)
C24_RetryAfterSufficient == RetriedInTime => last.res.allowed

\* What does hold: it is sufficient where the refusal sets no block.
C24_SufficientWithoutBlock ==
  (RetriedInTime /\ last.cfg.blockDuration = 0) => last.res.allowed

(***************************************************************************)
(* SpecLockout: a client that keeps retrying consume(cost = 1) on one      *)
(* identifier, at any pace, while time keeps advancing; every config; no   *)
(* block call.  Both the retries and the clock are weakly fair: the client *)
(* never stops and time never stands still while the clock can advance.    *)
(***************************************************************************)
InitLockout == InitWith(Configs, {TRUE})

Retry == Consume(TheId, 1, NoOverride, NoNamespace, "none", {})

Advance == Tick(StepMs, LockoutTicks)

NextLockout == Retry \/ Advance

\* ENABLED <<Retry>>_vars written out: the retry would change the map or answer
\* otherwise than the last call did.
RetryEnabled ==
  LET out == LimiterConsume(cache, bypassList, defaultConfig, onErrorSet, TheId, 1,
                            NoOverride, NoNamespace, now, "none")
  IN \/ out.cache # cache
     \/ Call("consume", TheId, NoNamespace, 1, 0, MergeConfig(defaultConfig, NoOverride),
             "none", out) # last

\* WF_vars(Retry), by its definition, with RetryEnabled for ENABLED <<Retry>>_vars.
RetryFair == ([]<>~RetryEnabled) \/ ([]<><<Retry>>_vars)

SpecLockout == InitLockout /\ [][NextLockout]_vars /\ RetryFair /\ WF_vars(Advance)

\* The client has just been refused, and the clock can still advance by
\* duration + blockDuration seconds.
RefusedInTime ==
  /\ last.op = "consume" /\ ~last.res.allowed
  /\ (ticks + (defaultConfig.duration + defaultConfig.blockDuration) * (MsPerSecond \div StepMs))
       <= LockoutTicks

(***************************************************************************)
(* C25.  No permanent lockout: for every config with points >= 1, with or  *)
(* without blockDuration, a client that keeps retrying consume(cost = 1)   *)
(* while time keeps advancing, with no block call, is eventually allowed   *)
(* again: refusals and escalation re-blocks cannot starve it.  Here:       *)
(* within duration + blockDuration seconds of any refusal.                 *)
(***************************************************************************)
C25_NoPermanentLockout ==
  RefusedInTime ~> (last.op = "consume" /\ last.res.allowed /\ last.at > MsPerSecond)

\* The client is allowed again after having been refused as blocked under a
\* block that a refusal had renewed.
C25_Witness ==
  /\ last.op = "consume" /\ last.res.allowed /\ last.at > MsPerSecond
  /\ defaultConfig.blockDuration # 0
  /\ defaultConfig.points < 2 * defaultConfig.duration
  /\ cache[TheFullKey].data.blockUntil > MsPerSecond + defaultConfig.blockDuration * MsPerSecond
  /\ cache[TheFullKey].data.consumed >= 2

(***************************************************************************)
(* C26.  TTL never ends a block early: in every reachable state, every     *)
(* entry of the storage whose record has blockUntil > now expires at       *)
(* blockUntil or later, whether an escalating refusal wrote it (TTL =      *)
(* duration + blockDuration), block() did (TTL = d + 60) or an allowed     *)
(* consume did (TTL = duration); also when the writing consume had been    *)
(* suspended at the storage boundary.                                      *)
(***************************************************************************)
C26_TtlCoversBlock ==
  \A k \in DOMAIN cache :
    cache[k].data.blockUntil > now => cache[k].expiresAt >= cache[k].data.blockUntil

\* A block set by an escalating refusal is in force, and the entry lasts
\* duration seconds longer than the block.
C26_Witness ==
  /\ last.op = "consume" /\ last.branch = "rejected" /\ last.cfg.blockDuration # 0
  /\ now > last.at
  /\ cache[TheFullKey].data = last.wrote
  /\ cache[TheFullKey].data.blockUntil > now
  /\ cache[TheFullKey].expiresAt =
       cache[TheFullKey].data.blockUntil + last.cfg.duration * MsPerSecond

\* A block set by block() is in force.
C26_WitnessManual ==
  /\ last.op = "block" /\ now > last.at
  /\ cache[TheFullKey].data.blockUntil > now
  /\ cache[TheFullKey].expiresAt = cache[TheFullKey].data.blockUntil + 60 * MsPerSecond

(***************************************************************************)
(* SpecLong: one identifier under one configuration whose duration         *)
(* (LongDuration seconds) is longer than the TTL of a block record;        *)
(* sequential consume and block calls; the clock advances by a little more *)
(* than half the slack block() adds to its TTL, so that entries expire.    *)
(***************************************************************************)
LongConfig == [points |-> MaxPoints, duration |-> LongDuration, blockDuration |-> 0]
LongStepMs == (BlockTtlSlack \div 2 + 1) * MsPerSecond

InitLong == InitWith({LongConfig}, {TRUE})

NextLong ==
  \/ Consume(TheId, 1, NoOverride, NoNamespace, "none", {})
  \/ \E d \in 1..MaxBlockDuration : Block(TheId, d, NoNamespace, "none", {})
  \/ Tick(LongStepMs, LongTicks)

SpecLong == InitLong /\ [][NextLong]_vars

\* The map as a storage that retained its entries would hold it: none has expired.
Unexpired(c) == [k \in DOMAIN c |-> [c[k] EXCEPT !.expiresAt = now]]

\* The entry stored for the identifier has expired: a get will answer absent.
Expired == TheFullKey \in DOMAIN cache /\ now > cache[TheFullKey].expiresAt

(***************************************************************************)
(* C27.  TTL expiry is equivalent to retention: under a fixed config, when *)
(* a stored entry (written by an allowed consume, a refused consume or     *)
(* block()) has expired by TTL, the record refilled to that instant holds  *)
(* tokens = points and no active block, so a consume returns the same      *)
(* allowed and remaining as it would had the entry been retained.          *)
(* (block() saves under d + 60 seconds whatever the config's duration.)    *)
(***************************************************************************)
C27_ExpiryIsRetention ==
  Expired =>
    /\ RefillTokens(cache[TheFullKey].data, defaultConfig, now).tokens
         = defaultConfig.points * TokenUnit
    /\ ~BlockActive(cache[TheFullKey].data, now)
    /\ WouldConsume(cache, 1).result.allowed
         = WouldConsume(Unexpired(cache), 1).result.allowed
    /\ WouldConsume(cache, 1).result.remaining
         = WouldConsume(Unexpired(cache), 1).result.remaining

\* What does hold: the same for the entries that consume calls wrote.
C27_ConsumeExpiryIsRetention ==
  (Expired /\ cache[TheFullKey].data.blockUntil = 0) =>
    /\ RefillTokens(cache[TheFullKey].data, defaultConfig, now).tokens
         = defaultConfig.points * TokenUnit
    /\ WouldConsume(cache, 1).result.allowed
         = WouldConsume(Unexpired(cache), 1).result.allowed
    /\ WouldConsume(cache, 1).result.remaining
         = WouldConsume(Unexpired(cache), 1).result.remaining

(***************************************************************************)
(* SpecInject: raw identifiers with and without a colon, under the         *)
(* namespace absent, empty, "n" or "n:n"; consume and reset calls at one   *)
(* instant.                                                                *)
(***************************************************************************)
InjectIds == {<<"a">>, <<"n", ":", "a">>}
InjectNamespaces == {NoNamespace, Ns(<<>>), Ns(<<"n">>), Ns(<<"n", ":", "n">>)}

InitInject == InitWith({KeysConfig}, {TRUE})

NextInject ==
  \/ \E id \in InjectIds, ns \in InjectNamespaces : Consume(id, 1, NoOverride, ns, "none", {})
  \/ \E id \in InjectIds, ns \in InjectNamespaces : Reset(id, ns, "none", {})

SpecInject == InitInject /\ [][NextInject]_vars

\* The storage key a call with this identifier and namespace addresses.
FullKey(id, ns) ==
  StorageBuildKey(StrategyBuildKey(DefaultKeyGenerator(SanitizeIdentifier(id), ns)))

\* The last call addressed the key that a call with (id, ns) addresses, as seen
\* in the storage: it is the entry under that key which the call wrote or removed.
Addressed(id, ns) ==
  /\ FullKey(id, ns) = LastFullKey
  /\ IF last.op = "reset" THEN FullKey(id, ns) \notin DOMAIN cache
                          ELSE cache[FullKey(id, ns)].data = last.wrote

\* A namespace with the empty string taken as no namespace.
Effective(ns) == IF ns.str = <<>> THEN NoNamespace ELSE ns

(***************************************************************************)
(* C28.  No cross-namespace key injection: with the default key generator, *)
(* for all raw identifiers and all namespaces (absent or any string), two  *)
(* calls address the same storage key only if their namespaces are equal   *)
(* and their identifiers sanitize to the same string.  (An empty-string    *)
(* namespace yields the key of an absent one.)                             *)
(***************************************************************************)
C28_NoKeyInjection ==
  last.op \in {"consume", "reset"} =>
    \A id \in InjectIds, ns \in InjectNamespaces :
      Addressed(id, ns) =>
        /\ ns = last.ns
        /\ SanitizeIdentifier(id) = SanitizeIdentifier(last.id)

(***************************************************************************)
(* C28, amended.  The same with the namespaces equal once an empty string  *)
(* is taken as an absent namespace.                                        *)
(***************************************************************************)
C28_NoKeyInjectionAmended ==
  last.op \in {"consume", "reset"} =>
    \A id \in InjectIds, ns \in InjectNamespaces :
      Addressed(id, ns) =>
        /\ Effective(ns) = Effective(last.ns)
        /\ SanitizeIdentifier(id) = SanitizeIdentifier(last.id)

\* A consume of "n:a" under no namespace is served from a full bucket while the
\* bucket of "a" under the namespace "n" stands exhausted, and the other way round.
C28_Witness ==
  /\ last.op = "consume" /\ last.id = <<"n", ":", "a">> /\ last.ns = NoNamespace
  /\ last.res.allowed /\ last.res.remaining = defaultConfig.points - 1
  /\ FullKey(<<"a">>, Ns(<<"n">>)) \in DOMAIN cache
  /\ cache[FullKey(<<"a">>, Ns(<<"n">>))].data.tokens = 0
  /\ FullKey(<<"a">>, Ns(<<"n">>)) # LastFullKey

=============================================================================
